---- MODULE Spec2Model ----
(***************************************************************************)
(* Model of the two libgnome stubs of irpf-tools-flatpak:                  *)
(*   gnome_url_show()  src/libgnome-stubs/libgnome2-stub.c                 *)
(*   gnome_vfs_init()  src/libgnome-stubs/libgnomevfs2-stub.c              *)
(*                                                                         *)
(* An activation of gnome_url_show is a frame.  The function keeps no      *)
(* state between calls, so every call is made by a host thread of its own  *)
(* (a thread calling again behaves as a fresh thread calling later).       *)
(* fork() duplicates the caller's frame into the new process, so a child   *)
(* owns a frame too and runs the same code from the statement after        *)
(* fork().  The kernel side (process table, termination status, reaping,   *)
(* SIGCHLD disposition, stderr) is modelled as far as the code observes    *)
(* it: waitpid fails with EINTR when a signal handler interrupts it while  *)
(* the child runs, and with ECHILD when SIGCHLD is ignored and the kernel  *)
(* has discarded the child.                                                *)
(***************************************************************************)
EXTENDS Integers, Sequences, FiniteSets, TLC

\* ---------------------------------------------------------------- bounds
NumThreads == 2      \* host threads; each calls gnome_url_show once
MaxExitCode == 2     \* the handler exits with a code in 0..MaxExitCode

\* one process slot per calling thread; thread ids follow the pids
Pids == 1..NumThreads
Threads == (NumThreads + 1)..(NumThreads + NumThreads)
Frames == Pids \cup Threads
Urls == {"https://example.com", "bogus://nothing"}
ExitCodes == 0..MaxExitCode
Signals == {9}
ForkErrnos == {"EAGAIN"}
ExecErrnos == {"ENOENT", "EACCES"}

VARIABLES fr, procs, stderr, sigchldIgn, vfsRet, vfsPc
vars == <<fr, procs, stderr, sigchldIgn, vfsRet, vfsPc>>

\* ------------------------------------------------------ pure definitions
\* value of a local that has been declared but not assigned yet
Uninit == 0 - 99

\* char *xdg_open[] = { "/usr/bin/xdg-open", (char *)url, NULL };
xdg_open(url) == <<"/usr/bin/xdg-open", url>>

\* wait status words as the kernel builds them and <sys/wait.h> reads them
W_EXITCODE(code) == (code % 256) * 256
W_SIGNALED(sig) == sig % 128
WIFEXITED(w) == (w % 128) = 0
WEXITSTATUS(w) == (w \div 256) % 256

\* the branch taken on fork()'s return value (lines 37, 41, 48)
Dispatch_nocheck(pid) == IF pid = 0 THEN "exec" ELSE "waitpid"
Dispatch(pid) ==
    IF pid < 0 THEN "forkerr"
    ELSE IF pid = 0 THEN "exec"
    ELSE "waitpid"

\* first argument of waitpid (line 49)
WaitArg_any(pid) == 0 - 1
WaitArg(pid) == pid

\* ret as computed from wstatus (lines 54-59)
RetOf_inverted(w) == IF WIFEXITED(w) THEN (IF WEXITSTATUS(w) = 0 THEN 0 ELSE 1) ELSE 0
RetOf(w) == IF WIFEXITED(w) THEN (IF WEXITSTATUS(w) = 0 THEN 1 ELSE 0) ELSE 0

\* diagnostics written while interpreting wstatus (lines 54-59)
StatusDiag_nonzero(w) ==
    IF WIFEXITED(w) /\ WEXITSTATUS(w) = 0 THEN {} ELSE {"xdg-open terminated abnormally"}
StatusDiag_silent(w) == {}
StatusDiag(w) == IF WIFEXITED(w) THEN {} ELSE {"xdg-open terminated abnormally"}

\* status the child terminates with after a failed execvp (line 45)
ExecFailStatus_zero == W_EXITCODE(0)
ExecFailStatus == W_EXITCODE(1)

\* where a frame continues after the failed-execvp branch (line 45: exit)
ExecFailNext_fallthrough == "waitpid"
ExecFailNext == "exited"

\* where a frame continues after a failed waitpid (line 52: return 0)
WaitFailNext_retry == "fork"
WaitFailNext == "done"

\* err(fmt, ...): one line on stderr, "<func>(): error: <text>: <strerror>"
ErrLine(x, text, e) ==
    [by |-> x, func |-> "gnome_url_show", text |-> text, errno |-> e]

IdleFrame ==
    [pc |-> "idle", url |-> "", pid |-> Uninit, wstatus |-> Uninit, ret |-> Uninit,
     failed |-> "", tid |-> 0, nfork |-> 0, nwait |-> 0]
NoProc ==
    [life |-> "none", creator |-> 0, argv |-> <<>>, status |-> Uninit,
     reapedBy |-> 0]

\* the pids the kernel can hand to a fork() made by frame x: any free slot.
\* Pid numbers carry no meaning for the code, so a thread's first child is
\* numbered after the thread.
FreePids == {p \in Pids : procs[p].life = "none"}
NewPid(x) ==
    IF fr[x].tid - NumThreads \in FreePids THEN {fr[x].tid - NumThreads} ELSE FreePids

\* children of the process frame x runs in that a waitpid(arg, ..) can wait for
Waitable(x, arg) ==
    IF x \in Threads
    THEN {p \in Pids : /\ procs[p].life \in {"running", "zombie"}
                       /\ (arg = p \/ arg <= 0)}
    ELSE {}

\* ------------------------------------------------------------------ Init
Init ==
    /\ fr = [x \in Frames |-> IdleFrame]
    /\ procs = [p \in Pids |-> NoProc]
    /\ stderr = {}
    /\ sigchldIgn \in BOOLEAN
    /\ vfsRet = 0
    /\ vfsPc = "idle"

\* --------------------------------------------------------------- actions
\* a thread of the host calls gnome_url_show(url, &error): lines 29-33
Call(t, url) ==
    /\ t \in Threads
    /\ fr[t].pc = "idle"
    /\ fr' = [fr EXCEPT ![t] = [IdleFrame EXCEPT !.pc = "fork", !.url = url,
                                                 !.tid = t]]
    /\ UNCHANGED <<procs, stderr, sigchldIgn, vfsRet, vfsPc>>

\* line 35, fork() fails: pid = -1
ForkFail(x, e) ==
    /\ fr[x].pc = "fork"
    /\ fr' = [fr EXCEPT ![x].pid = 0 - 1, ![x].failed = e,
                        ![x].nfork = @ + 1, ![x].pc = Dispatch(0 - 1)]
    /\ UNCHANGED <<procs, stderr, sigchldIgn, vfsRet, vfsPc>>

\* line 35, fork() succeeds: the child gets a copy of the frame with pid = 0
ForkOk(x) ==
    /\ fr[x].pc = "fork"
    /\ \E p \in NewPid(x) :
        /\ fr' = [fr EXCEPT ![x].pid = p, ![x].nfork = @ + 1, ![x].pc = Dispatch(p),
                            ![p] = [fr[x] EXCEPT !.pid = 0, !.nfork = fr[x].nfork + 1,
                                                 !.pc = Dispatch(0)]]
        /\ procs' = [procs EXCEPT ![p] = [life |-> "running", creator |-> x,
                                          argv |-> <<>>,
                                          status |-> Uninit, reapedBy |-> 0]]
    /\ UNCHANGED <<stderr, sigchldIgn, vfsRet, vfsPc>>

\* lines 37-40: err("fork failed: ..."); return 0;
ForkErr(x) ==
    /\ fr[x].pc = "forkerr"
    /\ stderr' = stderr \cup {ErrLine(x, "fork failed", fr[x].failed)}
    /\ fr' = [fr EXCEPT ![x].ret = 0, ![x].pc = "done"]
    /\ UNCHANGED <<procs, sigchldIgn, vfsRet, vfsPc>>

\* the kernel ends process p with wait status w
Terminated(p, w) ==
    [procs EXCEPT ![p].life = IF sigchldIgn THEN "reaped" ELSE "zombie",
                  ![p].status = w]

\* line 43, execvp succeeds: the process image becomes the handler
ExecOk(x) ==
    /\ fr[x].pc = "exec"
    /\ x \in Pids /\ procs[x].life = "running"
    /\ fr' = [fr EXCEPT ![x].pc = "handler"]
    /\ procs' = [procs EXCEPT ![x].argv = xdg_open(fr[x].url)]
    /\ UNCHANGED <<stderr, sigchldIgn, vfsRet, vfsPc>>

\* lines 43-46, execvp returns -1: err("spawning xdg-open failed"); exit(1);
ExecFail(x, e) ==
    /\ fr[x].pc = "exec"
    /\ x \in Pids /\ procs[x].life = "running"
    /\ stderr' = stderr \cup {ErrLine(x, "spawning xdg-open failed", e)}
    /\ fr' = [fr EXCEPT ![x].failed = e, ![x].pc = ExecFailNext]
    /\ procs' = IF ExecFailNext = "exited" THEN Terminated(x, ExecFailStatus) ELSE procs
    /\ UNCHANGED <<sigchldIgn, vfsRet, vfsPc>>

\* the handler image exits by itself
HandlerExit(p, code) ==
    /\ p \in Pids /\ procs[p].life = "running"
    /\ fr[p].pc = "handler"
    /\ fr' = [fr EXCEPT ![p].pc = "exited"]
    /\ procs' = Terminated(p, W_EXITCODE(code))
    /\ UNCHANGED <<stderr, sigchldIgn, vfsRet, vfsPc>>

\* a signal kills the child, before or after execvp
Killed(p, sig) ==
    /\ p \in Pids /\ procs[p].life = "running"
    /\ fr' = [fr EXCEPT ![p].pc = "exited"]
    /\ procs' = Terminated(p, W_SIGNALED(sig))
    /\ UNCHANGED <<stderr, sigchldIgn, vfsRet, vfsPc>>

\* lines 49, 54-60: waitpid returns the pid of a terminated child
WaitOk(x) ==
    /\ fr[x].pc = "waitpid"
    /\ \E p \in Waitable(x, WaitArg(fr[x].pid)) :
        /\ procs[p].life = "zombie"
        /\ LET w == procs[p].status IN
            /\ fr' = [fr EXCEPT ![x].wstatus = w, ![x].ret = RetOf(w),
                                ![x].nwait = @ + 1, ![x].pc = "done"]
            /\ stderr' = stderr \cup
                   {ErrLine(x, text, "") : text \in StatusDiag(w)}
        /\ procs' = [procs EXCEPT ![p].life = "reaped", ![p].reapedBy = x]
    /\ UNCHANGED <<sigchldIgn, vfsRet, vfsPc>>

\* lines 49-53: waitpid returns -1; err("waitpid failed: ..."); return 0;
\*   ECHILD: the process has no such unwaited-for child
\*   EINTR : a signal handler ran while waitpid was blocked
WaitFail(x, e) ==
    /\ fr[x].pc = "waitpid"
    /\ LET W == Waitable(x, WaitArg(fr[x].pid)) IN
        \/ e = "ECHILD" /\ W = {}
        \/ e = "EINTR" /\ W # {} /\ \A p \in W : procs[p].life = "running"
    /\ stderr' = stderr \cup {ErrLine(x, "waitpid failed", e)}
    /\ fr' = [fr EXCEPT ![x].failed = e, ![x].nwait = @ + 1,
                        ![x].ret = IF WaitFailNext = "done" THEN 0 ELSE @,
                        ![x].pc = WaitFailNext]
    /\ UNCHANGED <<procs, sigchldIgn, vfsRet, vfsPc>>

\* return value of gnome_vfs_init (libgnomevfs2-stub.c line 19)
VfsInitRet == 1

\* gnome_vfs_init(void) { return 1; }, called by the host at any time
gnome_vfs_init_zero ==
    /\ vfsPc = "idle"
    /\ vfsPc' = "returned"
    /\ vfsRet' = 0
    /\ UNCHANGED <<fr, procs, stderr, sigchldIgn>>
gnome_vfs_init ==
    /\ vfsPc = "idle"
    /\ vfsPc' = "returned"
    /\ vfsRet' = VfsInitRet
    /\ UNCHANGED <<fr, procs, stderr, sigchldIgn>>

\* the host has read the value returned by gnome_vfs_init and may call again
VfsResume ==
    /\ vfsPc = "returned"
    /\ vfsPc' = "idle"
    /\ vfsRet' = 0
    /\ UNCHANGED <<fr, procs, stderr, sigchldIgn>>

Next ==
    \/ \E t \in Threads, url \in Urls : Call(t, url)
    \/ \E x \in Frames, e \in ForkErrnos : ForkFail(x, e)
    \/ \E x \in Frames : ForkOk(x)
    \/ \E x \in Frames : ForkErr(x)
    \/ \E x \in Frames : ExecOk(x)
    \/ \E x \in Frames, e \in ExecErrnos : ExecFail(x, e)
    \/ \E p \in Pids, code \in ExitCodes : HandlerExit(p, code)
    \/ \E p \in Pids, sig \in Signals : Killed(p, sig)
    \/ \E x \in Frames : WaitOk(x)
    \/ \E x \in Frames, e \in {"ECHILD", "EINTR"} : WaitFail(x, e)
    \/ gnome_vfs_init
    \/ VfsResume

Spec == Init /\ [][Next]_vars

TypeOK ==
    /\ \A x \in Frames : fr[x].pc \in {"idle", "fork", "forkerr", "exec", "handler",
                                       "waitpid", "exited", "done"}
    /\ \A p \in Pids : procs[p].life \in {"none", "running", "zombie", "reaped"}
    /\ vfsPc \in {"idle", "returned"}

\* ---------------------------------------------------------------- claims
Returned(t) == fr[t].pc = "done"
Forked(t) == fr[t].pid > 0
WaitSucceeded(t) == fr[t].nwait = 1 /\ fr[t].failed = ""
Gone(p) == procs[p].life \in {"zombie", "reaped"}
HandlerRan(p) == procs[p].argv # <<>>
ExitedWith(p) == IF Gone(p) /\ WIFEXITED(procs[p].status)
                 THEN WEXITSTATUS(procs[p].status) ELSE 0 - 1
LinesBy(x) == {l \in stderr : l.by = x}
Kids(t) == {p \in Pids : procs[p].life # "none" /\ procs[p].creator = t}

\* C1: when fork, the child's exec and waitpid all succeed and the handler
\* exits with status 0, the call returns 1, and by then the child has
\* terminated and been collected by this call.
C1_ExitZeroReturnsTrue ==
    \A t \in Threads :
        (/\ Returned(t) /\ Forked(t) /\ WaitSucceeded(t)
         /\ HandlerRan(fr[t].pid) /\ ExitedWith(fr[t].pid) = 0)
        => /\ fr[t].ret = 1
           /\ procs[fr[t].pid].life = "reaped"
           /\ procs[fr[t].pid].reapedBy = t
C1_Witness ==
    \E t \in Threads :
        /\ Returned(t) /\ Forked(t) /\ WaitSucceeded(t) /\ fr[t].ret = 1
        /\ HandlerRan(fr[t].pid) /\ ExitedWith(fr[t].pid) = 0

\* C2 as stated: whenever the handler ran and had exited with a nonzero
\* status by the time the call returned, the call returned 0 and wrote
\* nothing to stderr.
C2_Original ==
    \A t \in Threads :
        (/\ Returned(t) /\ Forked(t) /\ fr[t].failed # "EINTR"
         /\ HandlerRan(fr[t].pid) /\ ExitedWith(fr[t].pid) > 0)
        => /\ fr[t].ret = 0
           /\ LinesBy(t) = {}
\* C2 amended: when the handler ran, exited with a nonzero status and waitpid
\* succeeded in collecting it, the call returns 0 and neither the caller nor
\* its child has written a diagnostic.
C2_NonzeroSilentFalse ==
    \A t \in Threads :
        (/\ Returned(t) /\ Forked(t) /\ WaitSucceeded(t)
         /\ HandlerRan(fr[t].pid) /\ ExitedWith(fr[t].pid) > 0)
        => /\ fr[t].ret = 0
           /\ LinesBy(t) = {}
           /\ LinesBy(fr[t].pid) = {}
C2_Witness ==
    \E t \in Threads :
        /\ Returned(t) /\ Forked(t) /\ WaitSucceeded(t) /\ fr[t].ret = 0
        /\ HandlerRan(fr[t].pid) /\ ExitedWith(fr[t].pid) > 1
        /\ LinesBy(t) = {}

\* C3: when a call in which fork succeeded has returned, its child has been
\* reaped (it is neither a zombie nor still running un-waited).
C3_NoUnreapedChild ==
    \A t \in Threads :
        (Returned(t) /\ Forked(t)) => procs[fr[t].pid].life = "reaped"

\* C4: when execvp fails in the child, the child has written the
\* "spawning xdg-open failed" line and exited with a nonzero status without
\* the handler ever running; the caller returns 0, and when its waitpid
\* succeeded it saw exactly that exit status and wrote nothing itself.
C4_ExecFailure ==
    \A p \in Pids :
        (procs[p].life # "none" /\ fr[p].failed \in ExecErrnos)
        => /\ \E l \in LinesBy(p) : /\ l.text = "spawning xdg-open failed"
                                    /\ l.errno = fr[p].failed
           /\ ~HandlerRan(p)
           /\ ExitedWith(p) > 0
           /\ LET t == procs[p].creator IN
                Returned(t) =>
                    /\ fr[t].ret = 0
                    /\ WaitSucceeded(t) =>
                         /\ fr[t].wstatus = procs[p].status
                         /\ procs[p].reapedBy = t
                         /\ LinesBy(t) = {}
C4_Witness ==
    \E p \in Pids :
        /\ procs[p].life = "reaped" /\ fr[p].failed = "EACCES"
        /\ Returned(procs[p].creator) /\ WaitSucceeded(procs[p].creator)
        /\ fr[procs[p].creator].ret = 0

\* C5: when the child was killed by a signal, a call that has returned has
\* written a diagnostic and returned 0; when waitpid collected the status the
\* diagnostic is "xdg-open terminated abnormally".
C5_SignalledChild ==
    \A t \in Threads :
        (/\ Returned(t) /\ Forked(t) /\ Gone(fr[t].pid)
         /\ ~WIFEXITED(procs[fr[t].pid].status))
        => /\ fr[t].ret = 0
           /\ LinesBy(t) # {}
           /\ WaitSucceeded(t) =>
                \E l \in LinesBy(t) : l.text = "xdg-open terminated abnormally"
C5_Witness ==
    \E t \in Threads :
        /\ Returned(t) /\ Forked(t) /\ WaitSucceeded(t)
        /\ procs[fr[t].pid].life = "reaped"
        /\ ~WIFEXITED(procs[fr[t].pid].status)
        /\ fr[t].ret = 0

\* C6: every call of gnome_vfs_init, in whatever state it is made, returns a
\* nonzero value and leaves the frames, the process table, stderr and the
\* signal disposition as they were.
C6_VfsInitTruthyNoEffect ==
    [][(vfsPc = "idle" /\ vfsPc' = "returned")
          => (vfsRet' # 0 /\ UNCHANGED <<fr, procs, stderr, sigchldIgn>>)]_vars
C6_Witness ==
    /\ vfsPc = "returned" /\ vfsRet = 1
    /\ \E p \in Pids : procs[p].life = "running"
    /\ stderr # {}

\* C7: a failed fork or waitpid makes the call write the matching diagnostic
\* and return 0 without calling it again; after a failed fork the call has
\* no child and never calls waitpid.
C7_SyscallFailure ==
    \A t \in Threads :
        /\ fr[t].nfork <= 1 /\ fr[t].nwait <= 1
        /\ fr[t].pid = 0 - 1 =>
             /\ fr[t].pc \in {"forkerr", "done"}
             /\ fr[t].nwait = 0
             /\ Kids(t) = {}
        /\ (Returned(t) /\ fr[t].pid = 0 - 1) =>
             /\ fr[t].ret = 0
             /\ \E l \in LinesBy(t) : l.text = "fork failed" /\ l.errno \in ForkErrnos
        /\ fr[t].failed \in {"EINTR", "ECHILD"} =>
             /\ Returned(t)
             /\ fr[t].ret = 0
             /\ \E l \in LinesBy(t) : l.text = "waitpid failed" /\ l.errno = fr[t].failed
C7_Witness ==
    /\ \E t \in Threads : Returned(t) /\ fr[t].pid = 0 - 1 /\ fr[t].ret = 0
    /\ \E t \in Threads : Returned(t) /\ fr[t].failed = "EINTR" /\ fr[t].ret = 0

\* C8 as stated: every call that has returned created exactly one child.
C8_Original ==
    \A t \in Threads : Returned(t) => Cardinality(Kids(t)) = 1
\* C8 amended: every call calls fork exactly once; it creates exactly one
\* child when that fork succeeds and none when it fails.
C8_AtMostOneChild ==
    \A t \in Threads :
        /\ Cardinality(Kids(t)) <= 1
        /\ Returned(t) =>
             /\ fr[t].nfork = 1
             /\ Cardinality(Kids(t)) = (IF Forked(t) THEN 1 ELSE 0)
C8_Witness ==
    /\ \E t \in Threads : Returned(t) /\ Forked(t) /\ Cardinality(Kids(t)) = 1
    /\ \E t \in Threads : Returned(t) /\ ~Forked(t) /\ Kids(t) = {}

C10_ChildNeverRunsParentPath ==
    \A p \in Pids :
        procs[p].life # "none" =>
            /\ fr[p].pid = 0
            /\ fr[p].pc \in {"exec", "handler", "exited"}
            /\ fr[p].nwait = 0
            /\ fr[p].ret = Uninit
            /\ fr[p].pc = "handler" => HandlerRan(p)
            /\ HandlerRan(p) =>
                 procs[p].argv = <<"/usr/bin/xdg-open", fr[procs[p].creator].url>>
            /\ fr[p].failed \in ExecErrnos =>
                 /\ fr[p].pc = "exited"
                 /\ ExitedWith(p) = 1
C10_Witness ==
    /\ \E p \in Pids : fr[p].pc = "handler" /\ procs[p].life = "running"
    /\ \E p \in Pids : fr[p].pc = "exited" /\ fr[p].failed \in ExecErrnos
====
